---------------------------- MODULE Spec2Model ----------------------------
(***************************************************************************)
(* Model of src/app.py: a FastAPI service with two handlers, query         *)
(* (POST /query) and add_knowledge (POST /add), over a Chroma collection   *)
(* and an Ollama client.  The handlers are plain `def` functions, which    *)
(* FastAPI runs on a thread pool, so several requests are in flight at     *)
(* once and interleave at their collaborator calls.                        *)
(*                                                                         *)
(* Strings are TLA+ strings: \o, Len and SubSeq act on them as on Python   *)
(* str.  A Python list is a sequence, a dict a record.                     *)
(***************************************************************************)
EXTENDS Integers, Sequences, FiniteSets, TLC

\* ------------------------------------------------------------------ bounds

\* Size of the identifier space uuid4 draws from (2^122 in the program).
NumIds == 2

\* Worker threads of the server's pool: two requests can be in flight at once.
Reqs == {"t1", "t2"}
\* str(uuid.uuid4()) yields one of these.
IdNames == <<"u1", "u2", "u3", "u4">>
Ids == {IdNames[i] : i \in 1..NumIds}

\* Request inputs: the q of POST /query and the text of POST /add.
Questions == {"", "sky?"}
Texts == {"sky is blue", "sea"}
\* Completion texts the model server may return.
Completions == {"blue"}

\* ----------------------------------------------------- program constants

\* n_results of collection.query
NResults == 1
ModelName == "tinyllama"
SuccessMessage == "Content added to knowledge base"

\* -------------------------------------------------------------- exceptions

\* A Python exception: its class and its args tuple.
ExceptionClasses == {"Exception", "ChromaError", "ResponseError", "OSError", "IndexError", "ValueError"}

\* What collection.query, ollama generate, uuid4 and collection.add can raise.
QueryFaults == {[cls |-> "ChromaError", args |-> <<"index unavailable">>]}
GenerateFaults == {[cls |-> "ResponseError", args |-> <<"model not found">>]}
UuidFaults == {[cls |-> "OSError", args |-> <<>>]}
AddFaults == {[cls |-> "ValueError", args |-> <<"disk full">>]}

\* [][0] on an empty list.
IndexError == [cls |-> "IndexError", args |-> <<"list index out of range">>]

\* str(e): '' for no args, the argument for one.
Str(e) == IF Len(e.args) = 0 THEN "" ELSE e.args[1]

ExceptCatchesMutant(e) == e.cls = "ValueError"
\* `except Exception as e`: every class above derives from Exception.
ExceptCatches(e) == e.cls \in ExceptionClasses

\* ------------------------------------------------------------------- state

VARIABLES
    store,     \* the Chroma collection "docs": sequence of [id, text]
    pc,        \* per request: "idle", "q12", "q18", "a31", "a34", "done"
    fn,        \* per request: "none", "query", "add"
    arg,       \* per request: q of query, text of add_knowledge
    results,   \* per request: what collection.query returned
    context,   \* per request: query's context
    doc_id,    \* per request: add_knowledge's doc_id
    resp,      \* per request: what the caller got
    calls,     \* per request: the collaborator calls made so far (history)
    delta,     \* per request: documents its collection.add added (history)
    inserted   \* [id, text] each successful add_knowledge passed to the
               \* insertion that took effect, in order (history)

vars == <<store, pc, fn, arg, results, context, doc_id, resp, calls, delta, inserted>>

NoResults == [ids |-> <<>>, documents |-> <<>>]
NoResp == [kind |-> "none"]
\* What the caller gets: the handler's return value as the response body, or
\* the server error of an exception that left the handler.
Fault(e) == [kind |-> "fault", exc |-> e]
Envelope(b) == [kind |-> "envelope", body |-> b]

StoreIds(s) == {s[i].id : i \in 1..Len(s)}

Init ==
    /\ store = <<>>
    /\ pc = [r \in Reqs |-> "idle"]
    /\ fn = [r \in Reqs |-> "none"]
    /\ arg = [r \in Reqs |-> ""]
    /\ results = [r \in Reqs |-> NoResults]
    /\ context = [r \in Reqs |-> ""]
    /\ doc_id = [r \in Reqs |-> ""]
    /\ resp = [r \in Reqs |-> NoResp]
    /\ calls = [r \in Reqs |-> <<>>]
    /\ delta = [r \in Reqs |-> 0]
    /\ inserted = <<>>


\* ---------------------------------------------------- vector store (Chroma)

Min(a, b) == IF a < b THEN a ELSE b

\* The orders in which a similarity search may rank k of the stored documents:
\* the embedding distance is the store's own, so any ranking is possible.
Rankings(s, k) ==
    {f \in [1..Min(k, Len(s)) -> 1..Len(s)] :
        \A i, j \in DOMAIN f : i # j => f[i] # f[j]}

\* The result of collection.query(query_texts=[q], n_results=k) for ranking f:
\* one inner list per query text, holding at most k hits (none when the
\* collection is empty).
QueryResult(s, f) ==
    [ids |-> << [i \in DOMAIN f |-> s[f[i]].id] >>,
     documents |-> << [i \in DOMAIN f |-> s[f[i]].text] >>]

\* collection.query(query_texts=[q], n_results=k): the results it may return.
CollectionQuery(s, k) == {QueryResult(s, f) : f \in Rankings(s, k)}

CollectionAfterQueryMutant(s, q) ==
    IF q \in StoreIds(s) THEN s ELSE Append(s, [id |-> q, text |-> q])
\* collection.query reads the collection and leaves it as it is.
CollectionAfterQuery(s, q) == s

CollectionAddMutant(s, id, text) == Append(s, [id |-> id, text |-> text])
CollectionAddUpsert(s, id, text) ==
    IF id \in StoreIds(s)
    THEN [i \in 1..Len(s) |-> IF s[i].id = id THEN [id |-> id, text |-> text] ELSE s[i]]
    ELSE Append(s, [id |-> id, text |-> text])
\* collection.add(documents=[text], ids=[id]): an identifier the collection
\* already holds is logged and skipped, nothing is raised.
CollectionAdd(s, id, text) ==
    IF id \in StoreIds(s) THEN s ELSE Append(s, [id |-> id, text |-> text])

\* ------------------------------------------------------------------- query

PropagateMutant(e) == Envelope([answer |-> Str(e)])
\* An exception no except clause catches leaves the handler.
Propagate(e) == Fault(e)

\* bool(list)
Truthy(l) == Len(l) > 0

\* results["documents"][0][0] raises IndexError when the inner list is empty.
ContextRaises(res) == Truthy(res.documents) /\ Len(res.documents[1]) = 0

ContextOfMutant(res) == IF Truthy(res.documents) THEN res.ids[1][1] ELSE ""
\* context = results["documents"][0][0] if results["documents"] else ""
ContextOf(res) == IF Truthy(res.documents) THEN res.documents[1][1] ELSE ""

BuildPromptMutant(ctx, q) ==
    "Context:\n" \o ctx \o "\n\nQuestion: "
        \o "\n\nAnswer clearly and concisely:using only the context in the context"
\* the f-string of line 20
BuildPrompt(ctx, q) ==
    "Context:\n" \o ctx \o "\n\nQuestion: " \o q
        \o "\n\nAnswer clearly and concisely:using only the context in the context"

\* The arguments of ollama_client.generate(model="tinyllama", prompt=...)
GenerateCall(ctx, q) == [op |-> "generate", model |-> ModelName, prompt |-> BuildPrompt(ctx, q)]

AnswerEnvelopeMutant(answer) == [answer |-> answer.model]
\* return {"answer": answer["response"]}
AnswerEnvelope(answer) == [answer |-> answer.response]

\* POST /query arrives and is dispatched to a worker thread.
QueryEnter(r, q) ==
    /\ pc[r] \in {"idle", "done"}
    /\ pc' = [pc EXCEPT ![r] = "q12"]
    /\ fn' = [fn EXCEPT ![r] = "query"]
    /\ arg' = [arg EXCEPT ![r] = q]
    /\ results' = [results EXCEPT ![r] = NoResults]
    /\ context' = [context EXCEPT ![r] = ""]
    /\ doc_id' = [doc_id EXCEPT ![r] = ""]
    /\ resp' = [resp EXCEPT ![r] = NoResp]
    /\ calls' = [calls EXCEPT ![r] = <<>>]
    /\ delta' = [delta EXCEPT ![r] = 0]
    /\ UNCHANGED <<store, inserted>>

\* Lines 12-16: the similarity search, then the context.  A fault of the
\* search, or the IndexError of line 15, leaves the handler.
QuerySearch(r) ==
    /\ pc[r] = "q12"
    /\ \/ \E e \in QueryFaults :
            /\ calls' = [calls EXCEPT ![r] = Append(@,
                    [op |-> "query", query_texts |-> <<arg[r]>>, n_results |-> NResults,
                     raised |-> TRUE, exc |-> e])]
            /\ resp' = [resp EXCEPT ![r] = Propagate(e)]
            /\ pc' = [pc EXCEPT ![r] = "done"]
            /\ UNCHANGED <<store, results, context>>
       \/ \E res \in CollectionQuery(store, NResults) :
            /\ calls' = [calls EXCEPT ![r] = Append(@,
                    [op |-> "query", query_texts |-> <<arg[r]>>, n_results |-> NResults,
                     raised |-> FALSE])]
            /\ store' = CollectionAfterQuery(store, arg[r])
            /\ results' = [results EXCEPT ![r] = res]
            /\ IF ContextRaises(res)
               THEN /\ resp' = [resp EXCEPT ![r] = Propagate(IndexError)]
                    /\ pc' = [pc EXCEPT ![r] = "done"]
                    /\ UNCHANGED context
               ELSE /\ context' = [context EXCEPT ![r] = ContextOf(res)]
                    /\ pc' = [pc EXCEPT ![r] = "q18"]
                    /\ UNCHANGED resp
    /\ UNCHANGED <<fn, arg, doc_id, delta, inserted>>

\* Lines 18-23: the generation call and the answer envelope.  A fault of the
\* call leaves the handler.
QueryGenerate(r) ==
    /\ pc[r] = "q18"
    /\ LET call == GenerateCall(context[r], arg[r]) IN
       \/ \E e \in GenerateFaults :
            /\ calls' = [calls EXCEPT ![r] = Append(@,
                    [op |-> call.op, model |-> call.model, prompt |-> call.prompt,
                     raised |-> TRUE, exc |-> e])]
            /\ resp' = [resp EXCEPT ![r] = Propagate(e)]
       \/ \E c \in Completions :
            /\ calls' = [calls EXCEPT ![r] = Append(@,
                    [op |-> call.op, model |-> call.model, prompt |-> call.prompt,
                     raised |-> FALSE, response |-> c])]
            /\ resp' = [resp EXCEPT ![r] =
                    Envelope(AnswerEnvelope([model |-> call.model, response |-> c]))]
    /\ pc' = [pc EXCEPT ![r] = "done"]
    /\ UNCHANGED <<store, fn, arg, results, context, doc_id, delta, inserted>>

\* ----------------------------------------------------------- add_knowledge

\* the dict of lines 42-45
ErrorEnvelope(e) == [status |-> "error", message |-> Str(e)]

SuccessEnvelopeMutant(id, text) == [status |-> "success", message |-> SuccessMessage, id |-> text]
\* the dict of lines 36-40
SuccessEnvelope(id, text) == [status |-> "success", message |-> SuccessMessage, id |-> id]

\* What an exception inside the try block becomes: the error envelope when
\* the except clause catches it.
Handled(e) == IF ExceptCatches(e) THEN Envelope(ErrorEnvelope(e)) ELSE Propagate(e)

\* POST /add arrives and is dispatched to a worker thread.
AddEnter(r, text) ==
    /\ pc[r] \in {"idle", "done"}
    /\ pc' = [pc EXCEPT ![r] = "a31"]
    /\ fn' = [fn EXCEPT ![r] = "add"]
    /\ arg' = [arg EXCEPT ![r] = text]
    /\ results' = [results EXCEPT ![r] = NoResults]
    /\ context' = [context EXCEPT ![r] = ""]
    /\ doc_id' = [doc_id EXCEPT ![r] = ""]
    /\ resp' = [resp EXCEPT ![r] = NoResp]
    /\ calls' = [calls EXCEPT ![r] = <<>>]
    /\ delta' = [delta EXCEPT ![r] = 0]
    /\ UNCHANGED <<store, inserted>>

\* Lines 30-31: doc_id = str(uuid.uuid4()), a random draw that is not compared
\* with any identifier drawn before.
AddUuid(r) ==
    /\ pc[r] = "a31"
    /\ \/ \E e \in UuidFaults :
            /\ calls' = [calls EXCEPT ![r] = Append(@,
                    [op |-> "uuid4", raised |-> TRUE, exc |-> e])]
            /\ resp' = [resp EXCEPT ![r] = Handled(e)]
            /\ pc' = [pc EXCEPT ![r] = "done"]
            /\ UNCHANGED doc_id
       \/ \E id \in Ids :
            /\ calls' = [calls EXCEPT ![r] = Append(@,
                    [op |-> "uuid4", raised |-> FALSE, value |-> id])]
            /\ doc_id' = [doc_id EXCEPT ![r] = id]
            /\ pc' = [pc EXCEPT ![r] = "a34"]
            /\ UNCHANGED resp
    /\ UNCHANGED <<store, fn, arg, results, context, delta, inserted>>

\* Lines 34-45: the insertion and the envelope.
AddInsert(r) ==
    /\ pc[r] = "a34"
    /\ \/ \E e \in AddFaults :
            /\ calls' = [calls EXCEPT ![r] = Append(@,
                    [op |-> "add", documents |-> <<arg[r]>>, ids |-> <<doc_id[r]>>,
                     held |-> doc_id[r] \in StoreIds(store), raised |-> TRUE, exc |-> e])]
            /\ resp' = [resp EXCEPT ![r] = Handled(e)]
            /\ UNCHANGED <<store, delta, inserted>>
       \/ /\ store' = CollectionAdd(store, doc_id[r], arg[r])
          /\ calls' = [calls EXCEPT ![r] = Append(@,
                    [op |-> "add", documents |-> <<arg[r]>>, ids |-> <<doc_id[r]>>,
                     held |-> doc_id[r] \in StoreIds(store), raised |-> FALSE])]
          /\ delta' = [delta EXCEPT ![r] = Len(store') - Len(store)]
          /\ inserted' = IF Len(store') > Len(store)
                         THEN Append(inserted, [id |-> doc_id[r], text |-> arg[r]])
                         ELSE inserted
          /\ resp' = [resp EXCEPT ![r] = Envelope(SuccessEnvelope(doc_id[r], arg[r]))]
    /\ pc' = [pc EXCEPT ![r] = "done"]
    /\ UNCHANGED <<fn, arg, results, context, doc_id>>

\* ----------------------------------------------------------- specification

Next ==
    \/ \E r \in Reqs, q \in Questions : QueryEnter(r, q)
    \/ \E r \in Reqs : QuerySearch(r)
    \/ \E r \in Reqs : QueryGenerate(r)
    \/ \E r \in Reqs, text \in Texts : AddEnter(r, text)
    \/ \E r \in Reqs : AddUuid(r)
    \/ \E r \in Reqs : AddInsert(r)

Spec == Init /\ [][Next]_vars

\* ------------------------------------------------------------- properties

\* The request of thread r is a query whose similarity search has returned.
SearchReturned(r) ==
    fn[r] = "query" /\ Len(calls[r]) >= 1 /\ ~calls[r][1].raised

\* ... and returned at least one document.
SearchHit(r) ==
    SearchReturned(r) /\ results[r].documents # <<>> /\ results[r].documents[1] # <<>>

\* ... and returned no document.
SearchEmpty(r) ==
    SearchReturned(r) /\ (results[r].documents = <<>> \/ results[r].documents[1] = <<>>)

\* The request of thread r is a query that has called the generation service.
Generated(r) ==
    fn[r] = "query" /\ Len(calls[r]) >= 2 /\ calls[r][2].op = "generate"

\* The request of thread r is an add_knowledge that has returned the success
\* envelope.
AddSucceeded(r) ==
    /\ fn[r] = "add" /\ pc[r] = "done"
    /\ resp[r].kind = "envelope" /\ resp[r].body.status = "success"

\* C1: for a non-empty question, when the similarity search returns at least
\* one document, the prompt handed to the generation service is the template
\* with exactly the first returned document's text as its context segment and
\* the question verbatim.
C1_PromptCarriesTopDocument ==
    \A r \in Reqs :
        (Generated(r) /\ SearchHit(r) /\ arg[r] # "") =>
            calls[r][2].prompt =
                "Context:\n" \o results[r].documents[1][1] \o "\n\nQuestion: " \o arg[r]
                    \o "\n\nAnswer clearly and concisely:using only the context in the context"

C1_Witness ==
    \E r \in Reqs :
        /\ Generated(r) /\ SearchHit(r) /\ arg[r] = "sky?"
        /\ results[r].documents[1][1] = "sea"
        /\ Len(store) = 2

\* C2 (as claimed): when the similarity search of a query (here with a
\* non-empty question) returns no document, the query goes on to the
\* generation call with the empty string as context, and the prompt it sends
\* is the template around an empty context segment; the empty result itself
\* never makes the handler fault.
C2_EmptySearchStillGenerates ==
    \A r \in Reqs :
        (SearchEmpty(r) /\ arg[r] # "") =>
            /\ context[r] = ""
            /\ \/ pc[r] = "q18"
               \/ /\ pc[r] = "done"
                  /\ Generated(r)
                  /\ calls[r][2].prompt =
                        "Context:\n" \o "\n\nQuestion: " \o arg[r]
                            \o "\n\nAnswer clearly and concisely:using only the context in the context"

\* C3: an add_knowledge call never ends in an unhandled fault; when uuid4 or
\* the insertion raised, it returns the envelope with status "error" and the
\* exception's description as message.
C3_AddFaultsBecomeErrorEnvelope ==
    \A r \in Reqs :
        (fn[r] = "add" /\ pc[r] = "done") =>
            /\ resp[r].kind = "envelope"
            /\ LET last == calls[r][Len(calls[r])] IN
               last.raised =>
                   resp[r].body =
                       [status |-> "error",
                        message |-> IF last.exc.args = <<>> THEN "" ELSE last.exc.args[1]]

C3_Witness ==
    /\ \E r \in Reqs :
        /\ fn[r] = "add" /\ pc[r] = "done"
        /\ calls[r][Len(calls[r])].op = "add" /\ calls[r][Len(calls[r])].raised
        /\ resp[r].body = [status |-> "error", message |-> "disk full"]
    /\ \E r \in Reqs :
        /\ fn[r] = "add" /\ pc[r] = "done"
        /\ calls[r][Len(calls[r])].op = "uuid4" /\ calls[r][Len(calls[r])].raised
        /\ resp[r].body = [status |-> "error", message |-> ""]

C5_RoundTrip ==
    \A r \in Reqs : \A k \in 1..Len(inserted) :
        (SearchHit(r) /\ results[r].ids[1][1] = inserted[k].id) =>
            /\ context[r] = inserted[k].text
            /\ Generated(r) =>
                calls[r][2].prompt =
                    "Context:\n" \o inserted[k].text \o "\n\nQuestion: " \o arg[r]
                        \o "\n\nAnswer clearly and concisely:using only the context in the context"

C5_Witness ==
    \E r \in Reqs : \E k \in 1..Len(inserted) :
        /\ Len(store) = 2
        /\ SearchHit(r) /\ Generated(r)
        /\ results[r].ids[1][1] = inserted[k].id
        /\ inserted[k].text = "sea"
        /\ context[r] = "sea"

C7_QueryFaultsPropagate ==
    \A r \in Reqs :
        (fn[r] = "query" /\ pc[r] = "done") =>
            /\ Len(calls[r]) <= 2
            /\ calls[r][1].op = "query"
            /\ calls[r][1].raised =>
                   Len(calls[r]) = 1 /\ resp[r] = [kind |-> "fault", exc |-> calls[r][1].exc]
            /\ (Len(calls[r]) = 2 /\ calls[r][2].raised) =>
                   /\ ~calls[r][1].raised /\ calls[r][2].op = "generate"
                   /\ resp[r] = [kind |-> "fault", exc |-> calls[r][2].exc]

C7_Witness ==
    /\ \E r \in Reqs :
        fn[r] = "query" /\ pc[r] = "done" /\ calls[r][1].raised /\ resp[r].kind = "fault"
    /\ \E r \in Reqs :
        /\ fn[r] = "query" /\ pc[r] = "done" /\ Len(calls[r]) = 2
        /\ calls[r][2].raised /\ resp[r].kind = "fault"

\* C8: every document a successful add_knowledge inserted is still in the
\* knowledge base, with the identifier and the text it was inserted with.
C8_InsertedDocumentsRemain ==
    \A k \in 1..Len(inserted) : \E i \in 1..Len(store) : store[i] = inserted[k]

\* A document inserted earlier, then a query that returned, and an
\* add_knowledge that drew the stored identifier for another text.
C8_Witness ==
    /\ Len(inserted) >= 1
    /\ \E r \in Reqs : fn[r] = "query" /\ pc[r] = "done"
    /\ \E r \in Reqs :
        /\ AddSucceeded(r) /\ delta[r] = 0
        /\ \E k \in 1..Len(inserted) :
            inserted[k].id = doc_id[r] /\ inserted[k].text # arg[r]

\* C9: no step of a query, returning or faulting, changes the knowledge base.
C9_QueryLeavesStoreUnchanged ==
    [][\A r \in Reqs :
        (pc[r] \in {"q12", "q18"} /\ pc'[r] # pc[r]) => store' = store]_vars

\* A query has returned an answer and another has faulted, over a non-empty
\* knowledge base.
C9_Witness ==
    /\ Len(store) >= 1
    /\ \E r \in Reqs : fn[r] = "query" /\ pc[r] = "done" /\ resp[r].kind = "envelope"
    /\ \E r \in Reqs : fn[r] = "query" /\ pc[r] = "done" /\ resp[r].kind = "fault"

\* C10: a query that returns an answer envelope has made exactly two
\* collaborator calls: first one similarity search for its question asking for
\* one result, then one generation call with model "tinyllama"; the answer is
\* that call's completion text.
C10_AnswerAfterOneSearchOneGeneration ==
    \A r \in Reqs :
        (fn[r] = "query" /\ pc[r] = "done" /\ resp[r].kind = "envelope") =>
            /\ Len(calls[r]) = 2
            /\ calls[r][1].op = "query" /\ calls[r][1].query_texts = <<arg[r]>>
            /\ calls[r][1].n_results = 1 /\ ~calls[r][1].raised
            /\ calls[r][2].op = "generate" /\ calls[r][2].model = "tinyllama"
            /\ ~calls[r][2].raised
            /\ resp[r].body = [answer |-> calls[r][2].response]

C10_Witness ==
    \E r \in Reqs :
        /\ fn[r] = "query" /\ pc[r] = "done"
        /\ resp[r] = [kind |-> "envelope", body |-> [answer |-> "blue"]]
        /\ Len(calls[r]) = 2

=============================================================================
